---- MODULE Spec2Model ----
(***************************************************************************)
(* Tickefy: the embedding index (Faiss index + metadata ledger) of         *)
(* src/facial_recognition_pipelines/index_pipeline.py and the two routes   *)
(* of src/api/root.py that feed it.                                        *)
(*                                                                         *)
(* Two specifications share the state and the operators below:             *)
(*   Spec      - the deployed program: requests to the two routes, one at  *)
(*               a time, with failing disk writes, a failing notification  *)
(*               socket and process crashes;                               *)
(*   SpecStore - the store operations of index_pipeline.py called          *)
(*               directly, the persisted index being of any width.         *)
(*                                                                         *)
(* Scores (inner products of unit vectors) are integers in thousandths.    *)
(* A disk write is one step: it replaces the artifact or raises and leaves *)
(* it as it was.                                                           *)
(***************************************************************************)
EXTENDS Integers, Sequences, FiniteSets, TLC

VARIABLES METADATA, INDEX, diskIndex, diskMeta, files, req, resp, ret,
          log, dirty, faults, ops, tasks

vars == <<METADATA, INDEX, diskIndex, diskMeta, files, req, resp, ret,
          log, dirty, faults, ops, tasks>>

-----------------------------------------------------------------------------
(* Program constants *)

DIMENSION == 512

\* K = 4 if INDEX.ntotal > 4 else 1
K_BIG == 4

\* 0.8, in thousandths
THRESHOLD == 800

\* int(best_similarity * 100)
PERCENT == 100

\* one unit of score is 1/ScoreUnit
ScoreUnit == 1000

UNKNOWN == "Unknown"

(* Bounds *)

\* environment failures per run: a disk write or the notification socket
\* raising, the process crashing
MaxFaults == 1

\* image files save_image creates per run
MaxFiles == 6

\* store operations called directly per run
MaxOps == 2

\* requests that arrive per run, when several are in flight
MaxRequests == 2

\* crashes between the two writes of an ingestion per run
MaxCrashes == 2

-----------------------------------------------------------------------------
(* Inputs: uploaded images and claimed identities.                         *)
(* Image 0 shows no face, image 1 a face the quality gate refuses, images  *)
(* 2, 3 and 4 usable faces. A fifth face, image 5, exists as a file only.  *)

Images == 0 .. K_BIG

Users == {"alice", "bob"}

\* the embedding of image i lies at Marks[i]; all pairwise distances differ
Marks == <<4, 0, 10, 21, 22>>

Abs(x) == IF x < 0 THEN -x ELSE x

\* sha256 of the bytes: equal bytes, equal digest; different bytes, different digest
compute_image_hash(img) == <<"sha256", img>>

\* the quality gate: "raise" (ValueError), or the verdict final_valid
is_valid_face(img) == IF img = 0 THEN "raise" ELSE IF img = 1 THEN "no" ELSE "yes"

\* mtcnn(img) is None
NoFaceDetected(img) == img = 0

\* the normalized embedding resnet computes for an image with a face
Embedding(img) == Marks[img]

\* embeddings whose float32 inner product with themselves, after
\* l2_normalize, is the largest float32 below 1.0 instead of 1.0
ShortOfOne == {Marks[K_BIG]}

\* inner product of two stored/query unit vectors
InnerProduct(a, b) ==
    LET d == Abs(a - b)
    IN  IF d = 0 THEN (IF a \in ShortOfOne THEN ScoreUnit - 1 ELSE ScoreUnit)
        ELSE IF d <= 10 THEN ScoreUnit - 20 * d ELSE 810 - d

-----------------------------------------------------------------------------
(* Values *)

NoIndex == [loaded |-> FALSE, d |-> 0, vecs |-> <<>>]

NoFile == [exists |-> FALSE, d |-> 0, vecs |-> <<>>]

NoMetaFile == [exists |-> FALSE, recs |-> <<>>]

\* a path as the pathlib.Path object save_image returns, and as a str
PathObj(n) == [name |-> n, type |-> "Path"]

PathStr(n) == [name |-> n, type |-> "str"]

\* str(image_path)
StrOf(p) == [p EXCEPT !.type = "str"]

Record(user_id, image_path, image_hash) ==
    [user_id |-> user_id, image_path |-> StrOf(image_path), hash |-> image_hash]

Range(s) == {s[i] : i \in 1 .. Len(s)}

-----------------------------------------------------------------------------
(* index_pipeline.py: the store operations, as functions of the in-memory  *)
(* cache (M = METADATA, I = INDEX) and the two artifacts (dM, dI).         *)

\* load_metadata: the list is read from disk while the cached list is empty
load_metadata(M, dM) == IF Len(M) = 0 /\ dM.exists THEN dM.recs ELSE M

\* load_index: INDEX is assigned before its width is checked, and a cached
\* INDEX is returned unchecked
load_index(I, dI) ==
    IF ~I.loaded
    THEN IF dI.exists
         THEN [ok |-> dI.d = DIMENSION,
               I  |-> [loaded |-> TRUE, d |-> dI.d, vecs |-> dI.vecs]]
         ELSE [ok |-> TRUE, I |-> [loaded |-> TRUE, d |-> DIMENSION, vecs |-> <<>>]]
    ELSE [ok |-> TRUE, I |-> I]

\* get_metadata_for_index answering an ordinal beyond the list with the
\* last record
get_metadata_for_index_clamped(idx, M) ==
    IF idx < Len(M) THEN M[idx + 1].user_id
    ELSE IF Len(M) > 0 THEN M[Len(M)].user_id ELSE UNKNOWN

\* get_metadata_for_index reading the first record whatever idx is
get_metadata_for_index_first(idx, M) ==
    IF Len(M) > 0 THEN M[1].user_id ELSE UNKNOWN

\* get_metadata_for_index, on the list load_metadata returned; idx counts from 0
get_metadata_for_index(idx, M) ==
    IF idx < Len(M) THEN M[idx + 1].user_id ELSE UNKNOWN

\* is_indexed looking the hash up in the metadata artifact, not in METADATA
is_indexed_disk_only(image_hash, M, dM) ==
    [M   |-> load_metadata(M, dM),
     val |-> \E i \in 1 .. Len(dM.recs) : dM.recs[i].hash = image_hash]

\* is_indexed looking at the first record only
is_indexed_first_only(image_hash, M, dM) ==
    LET M1 == load_metadata(M, dM)
    IN  [M |-> M1, val |-> Len(M1) > 0 /\ M1[1].hash = image_hash]

\* is_indexed
is_indexed(image_hash, M, dM) ==
    LET M1 == load_metadata(M, dM)
    IN  [M   |-> M1,
         val |-> Len(M1) > 0 /\ \E i \in 1 .. Len(M1) : M1[i].hash = image_hash]

\* is_empty_index with the comparison inverted
is_empty_index_inverted(I, dI) ==
    LET li == load_index(I, dI)
    IN  [ok |-> li.ok, I |-> li.I, val |-> Len(li.I.vecs) # 0]

\* is_empty_index
is_empty_index(I, dI) ==
    LET li == load_index(I, dI)
    IN  [ok |-> li.ok, I |-> li.I, val |-> Len(li.I.vecs) = 0]

\* INDEX.search(embedding, K): the rankings (sequences of ordinals, from 0)
\* of the K best inner products, best first; equal scores in any order
RECURSIVE Rankings(_, _, _, _)
Rankings(vecs, q, remaining, k) ==
    IF k = 0 \/ remaining = {}
    THEN {<<>>}
    ELSE LET score == [o \in remaining |-> InnerProduct(q, vecs[o + 1])]
             best == {o \in remaining : \A o2 \in remaining : score[o] >= score[o2]}
         IN  UNION {{<<o>> \o r : r \in Rankings(vecs, q, remaining \ {o}, k - 1)} :
                    o \in best}

search(vecs, q, k) == Rankings(vecs, q, 0 .. (Len(vecs) - 1), k)

\* K = 4 if INDEX.ntotal > 4 else 1
TopK(ntotal) == IF ntotal > K_BIG THEN K_BIG ELSE 1

\* the neighbour compare_faces reads: D[0][0], I[0][0]
BestOf(ranking) == ranking[1]

\* compare_faces rejecting a score of exactly 0.8
Decide_exclusive(best_similarity, best_index, M) ==
    [sim   |-> IF best_similarity <= THRESHOLD
               THEN 0 ELSE (best_similarity * PERCENT) \div ScoreUnit,
     label |-> IF best_similarity <= THRESHOLD
               THEN UNKNOWN ELSE get_metadata_for_index(best_index, M)]

\* label and similarity_percent of compare_faces
Decide(best_similarity, best_index, M) ==
    [sim   |-> IF best_similarity < THRESHOLD
               THEN 0 ELSE (best_similarity * PERCENT) \div ScoreUnit,
     label |-> IF best_similarity < THRESHOLD
               THEN UNKNOWN ELSE get_metadata_for_index(best_index, M)]

CmpRaise(kind, M, I) ==
    [kind |-> kind, sim |-> 0, label |-> UNKNOWN, score |-> 0, top |-> 0, k |-> 0,
     M |-> M, I |-> I]

\* the exceptions module is not part of the sources: EmptyIndexError is taken
\* to be the IndexError that compare_faces re-raises unchanged
EmptyIndexErrorKind == "EmptyIndexError"

\* compare_faces(image_path), img being the image at image_path: the
\* outcomes (one per admissible ranking), each with the caches it leaves
compare_faces(img, M, I, dM, dI) ==
    LET li == load_index(I, dI)
        M1 == load_metadata(M, dM)
        n  == Len(li.I.vecs)
    IN  IF ~li.ok THEN {CmpRaise("Exception", M, li.I)}
        ELSE IF n = 0 THEN {CmpRaise(EmptyIndexErrorKind, M1, li.I)}
        ELSE IF NoFaceDetected(img) THEN {CmpRaise("FaceDetectionError", M1, li.I)}
        \* faiss refuses a query of another width than the index
        ELSE IF li.I.d # DIMENSION THEN {CmpRaise("Exception", M1, li.I)}
        ELSE {LET o == BestOf(r)
                  s == InnerProduct(Embedding(img), li.I.vecs[o + 1])
                  d == Decide(s, o, M1)
              IN  [kind |-> "ok", sim |-> d.sim, label |-> d.label, score |-> s,
                   top |-> o, k |-> Len(r), M |-> M1, I |-> li.I] :
              r \in search(li.I.vecs, Embedding(img), TopK(n))}

\* index_embedding appending the record and leaving INDEX.add out
index_embedding_mem_no_add(image_path, user_id, image_hash, img, M, I, dM, dI) ==
    LET M1 == load_metadata(M, dM)
        li == load_index(I, dI)
    IN  IF NoFaceDetected(img) \/ ~li.ok \/ li.I.d # DIMENSION
        THEN [kind |-> "raise", M |-> M1, I |-> li.I]
        ELSE [kind |-> "added",
              M |-> Append(M1, Record(user_id, image_path, image_hash)),
              I |-> li.I]

\* index_embedding up to INDEX.add: the metadata record is appended first,
\* then the index is loaded and the vector added; img is the image at image_path
index_embedding_mem(image_path, user_id, image_hash, img, M, I, dM, dI) ==
    LET M1 == load_metadata(M, dM)
        processed_images == {M1[i].image_path : i \in 1 .. Len(M1)}
        M2 == Append(M1, Record(user_id, image_path, image_hash))
        li == load_index(I, dI)
    IN  IF image_path \in processed_images THEN [kind |-> "skip", M |-> M1, I |-> I]
        ELSE IF NoFaceDetected(img) THEN [kind |-> "raise", M |-> M1, I |-> I]
        ELSE IF ~li.ok THEN [kind |-> "raise", M |-> M2, I |-> li.I]
        \* faiss refuses a vector of another width than the index
        ELSE IF li.I.d # DIMENSION THEN [kind |-> "raise", M |-> M2, I |-> li.I]
        ELSE [kind |-> "added", M |-> M2,
              I |-> [li.I EXCEPT !.vecs = Append(@, Embedding(img))]]

-----------------------------------------------------------------------------
(* The request being served and its response.                              *)

Idle ==
    [kind |-> "idle", pc |-> "idle", img |-> 0, user |-> "", hash |-> <<>>,
     indexed |-> FALSE, valid |-> FALSE, cmp |-> "none", sim |-> 0,
     label |-> "", score |-> 0, top |-> 0, k |-> 0,
     path |-> PathObj(0), uid |-> "", preM |-> <<>>, preV |-> <<>>]

NoResp == [status |-> 0, flag |-> FALSE, message |-> ""]

NoRet ==
    [op |-> "none", kind |-> "none", val |-> FALSE, img |-> 0, sim |-> 0,
     label |-> "", score |-> 0, top |-> 0, k |-> 0]

\* the store as the next operation will see it, after its lazy loads
EffMeta == load_metadata(METADATA, diskMeta)

EffVecs == load_index(INDEX, diskIndex).I.vecs

Unexpected == "An unexpected error occurred."

Duplicate == "The image provided is a duplicate of a previously saved image"

NotIdentified == "Unable to identify the face"

\* str(e) of what compare_faces raises
MessageOf(kind) ==
    CASE kind = "EmptyIndexError"    -> "No images have been indexed yet"
      [] kind = "FaceDetectionError" -> "Unable to detect a face. Please try again."
      [] OTHER                       -> Unexpected

\* new_file_path of save_image: a fresh uuid4 name
NewPath == PathObj(Len(files) + 1)

Begin(kind, img, user) ==
    [Idle EXCEPT !.kind = kind, !.img = img, !.user = user,
                 !.hash = compute_image_hash(img),
                 !.preM = EffMeta, !.preV = EffVecs]

WithCmp(rq, c) ==
    [rq EXCEPT !.cmp = c.kind, !.sim = c.sim, !.label = c.label,
               !.score = c.score, !.top = c.top, !.k = c.k]

\* the except branches of assess_image_quality that answer 400
EnrollRejected(msg) == [status |-> 400, flag |-> FALSE, message |-> msg]

\* return {"is_image_valid": bool(valid_face)}
EnrollAccepted(valid_face) == [status |-> 200, flag |-> valid_face, message |-> ""]

\* the handler of ExistingUserError builds JSONResponse(content={"label": e}):
\* e is the exception object, which json.dumps refuses (TypeError), so the
\* handler itself raises and the framework answers 500 without the label
ConflictResponse(label) == [status |-> 500, flag |-> FALSE, message |-> ""]

\* the except branch of identify
IdentifyFailed(msg) == [status |-> 400, flag |-> FALSE, message |-> msg]

\* return {"identified": similarity > 0.8, "message": label}
IdentifyAnswer(similarity, label) ==
    [status |-> 200, flag |-> similarity * ScoreUnit > THRESHOLD, message |-> label]

Out(rq, pc, r, M, I, F) ==
    [req |-> [rq EXCEPT !.pc = pc], resp |-> r, M |-> M, I |-> I, F |-> F]

\* what the caller of index_embedding does once INDEX.add is done, or
\* index_embedding has returned early (retpc, returned) or raised (raised)
AfterIndexMem(rq, ie, F, raised, retpc, returned) ==
    CASE ie.kind = "raise" -> Out(rq, "done", raised, ie.M, ie.I, F)
      [] ie.kind = "skip"  -> Out(rq, retpc, returned, ie.M, ie.I, F)
      [] OTHER             -> Out(rq, "write_index", NoResp, ie.M, ie.I, F)

\* assess_image_quality saving and indexing an image the quality gate
\* refused (save_image ignoring valid)
AssessOutcomes_saves_unusable(img, user) ==
    LET r0 == Begin("enroll", img, user)
        ix == is_indexed(r0.hash, METADATA, diskMeta)
        q  == is_valid_face(img)
        e  == is_empty_index(INDEX, diskIndex)
        r1 == [r0 EXCEPT !.indexed = ix.val, !.valid = (q = "yes")]
    IN  IF ix.val THEN {Out(r1, "done", EnrollRejected(Duplicate), ix.M, INDEX, files)}
        ELSE IF q = "raise"
        THEN {Out(r1, "done", EnrollRejected("No faces detected in image"),
                  ix.M, INDEX, files)}
        ELSE IF ~e.ok THEN {Out(r1, "done", EnrollRejected(Unexpected), ix.M, e.I, files)}
        ELSE IF ~e.val /\ q = "yes"
        THEN {LET r2 == WithCmp(r1, c)
                  r3 == [r2 EXCEPT !.path = NewPath, !.uid = user]
              IN  IF c.kind # "ok"
                  THEN Out(r2, "done", EnrollRejected(MessageOf(c.kind)), c.M, c.I, files)
                  ELSE IF c.sim * ScoreUnit > THRESHOLD /\ c.label # user
                  THEN Out(r2, "done", ConflictResponse(c.label), c.M, c.I, files)
                  ELSE AfterIndexMem(r3,
                           index_embedding_mem(NewPath, user, r0.hash, img,
                                               c.M, c.I, diskMeta, diskIndex),
                           Append(files, img),
                           EnrollRejected(Unexpected), "done", EnrollAccepted(TRUE)) :
              c \in compare_faces(img, ix.M, e.I, diskMeta, diskIndex)}
        ELSE {AfterIndexMem([r1 EXCEPT !.path = NewPath, !.uid = user],
                  index_embedding_mem(NewPath, user, r0.hash, img,
                                      ix.M, e.I, diskMeta, diskIndex),
                  Append(files, img),
                  EnrollRejected(Unexpected), "done", EnrollAccepted(TRUE))}

\* assess_image_quality, from the request to INDEX.add of index_embedding
AssessOutcomes(img, user) ==
    LET r0 == Begin("enroll", img, user)
        ix == is_indexed(r0.hash, METADATA, diskMeta)
        q  == is_valid_face(img)
        e  == is_empty_index(INDEX, diskIndex)
        r1 == [r0 EXCEPT !.indexed = ix.val, !.valid = (q = "yes")]
    IN  IF ix.val THEN {Out(r1, "done", EnrollRejected(Duplicate), ix.M, INDEX, files)}
        ELSE IF q = "raise"
        THEN {Out(r1, "done", EnrollRejected("No faces detected in image"),
                  ix.M, INDEX, files)}
        ELSE IF ~e.ok THEN {Out(r1, "done", EnrollRejected(Unexpected), ix.M, e.I, files)}
        ELSE IF ~e.val /\ q = "yes"
        THEN {LET r2 == WithCmp(r1, c)
                  r3 == [r2 EXCEPT !.path = NewPath, !.uid = user]
              IN  IF c.kind # "ok"
                  THEN Out(r2, "done", EnrollRejected(MessageOf(c.kind)), c.M, c.I, files)
                  ELSE IF c.sim * ScoreUnit > THRESHOLD /\ c.label # user
                  THEN Out(r2, "done", ConflictResponse(c.label), c.M, c.I, files)
                  ELSE AfterIndexMem(r3,
                           index_embedding_mem(NewPath, user, r0.hash, img,
                                               c.M, c.I, diskMeta, diskIndex),
                           Append(files, img),
                           EnrollRejected(Unexpected), "done", EnrollAccepted(TRUE)) :
              c \in compare_faces(img, ix.M, e.I, diskMeta, diskIndex)}
        ELSE IF q # "yes"
        \* save_image returns (False, None): index_embedding is not called
        THEN {Out(r1, "done", EnrollAccepted(FALSE), ix.M, e.I, files)}
        ELSE {AfterIndexMem([r1 EXCEPT !.path = NewPath, !.uid = user],
                  index_embedding_mem(NewPath, user, r0.hash, img,
                                      ix.M, e.I, diskMeta, diskIndex),
                  Append(files, img),
                  EnrollRejected(Unexpected), "done", EnrollAccepted(TRUE))}

\* identify, from the request to INDEX.add of index_embedding
IdentifyOutcomes(img) ==
    LET r0 == Begin("identify", img, "")
        ix == is_indexed(r0.hash, METADATA, diskMeta)
        r1 == [r0 EXCEPT !.indexed = ix.val]
    IN  {LET r2 == WithCmp(r1, c)
             r3 == [r2 EXCEPT !.path = NewPath, !.uid = c.label]
         IN  IF c.kind # "ok"
             THEN Out(r2, "done", IdentifyFailed(MessageOf(c.kind)), c.M, c.I, files)
             ELSE IF c.sim * ScoreUnit < THRESHOLD
             THEN Out(r2, "done", IdentifyFailed(NotIdentified), c.M, c.I, files)
             ELSE IF ix.val
             THEN Out(r2, "signal", NoResp, c.M, c.I, files)
             ELSE AfterIndexMem(r3,
                      index_embedding_mem(NewPath, c.label, r0.hash, img,
                                          c.M, c.I, diskMeta, diskIndex),
                      Append(files, img),
                      IdentifyFailed(Unexpected), "signal", NoResp) :
         c \in compare_faces(img, ix.M, INDEX, diskMeta, diskIndex)}

-----------------------------------------------------------------------------
(* Actions of the routes *)

Apply(o) ==
    /\ UNCHANGED <<ops, tasks>>
    /\ req' = o.req
    /\ resp' = o.resp
    /\ METADATA' = o.M
    /\ INDEX' = o.I
    /\ files' = o.F
    /\ ret' = NoRet
    /\ UNCHANGED <<diskIndex, diskMeta, log, dirty, faults>>

\* POST /users/{user_id}/assess_image_quality
Assess ==
    /\ req.pc = "idle"
    /\ Len(files) < MaxFiles
    /\ \E img \in Images, user \in Users :
           \E o \in AssessOutcomes(img, user) : Apply(o)

\* POST /users/identify
Identify ==
    /\ req.pc = "idle"
    /\ Len(files) < MaxFiles
    /\ \E img \in Images : \E o \in IdentifyOutcomes(img) : Apply(o)

\* index_embedding raised: what its caller answers
Raised(kind) ==
    CASE kind = "enroll"   -> EnrollRejected(Unexpected)
      [] kind = "identify" -> IdentifyFailed(Unexpected)
      [] OTHER             -> NoResp

RetOf(op, kind) == [NoRet EXCEPT !.op = op, !.kind = kind]

\* index_embedding writing the metadata artifact where the index artifact
\* is to be written
WriteIndexOk_metadata_first ==
    /\ UNCHANGED <<ops, tasks>>
    /\ req.pc = "write_index"
    /\ diskMeta' = [exists |-> TRUE, recs |-> METADATA]
    /\ req' = [req EXCEPT !.pc = "write_meta"]
    /\ UNCHANGED <<METADATA, INDEX, diskIndex, files, resp, ret, log, dirty,
                   faults>>

\* faiss.write_index(INDEX, INDEX_PATH)
WriteIndexOk ==
    /\ UNCHANGED <<ops, tasks>>
    /\ req.pc = "write_index"
    /\ diskIndex' = [exists |-> TRUE, d |-> INDEX.d, vecs |-> INDEX.vecs]
    /\ req' = [req EXCEPT !.pc = "write_meta"]
    /\ UNCHANGED <<METADATA, INDEX, diskMeta, files, resp, ret, log, dirty,
                   faults>>

\* a write that raises: index_embedding wraps the error and raises
WriteFails ==
    /\ UNCHANGED <<ops, tasks>>
    /\ faults < MaxFaults
    /\ faults' = faults + 1
    /\ dirty' = TRUE
    /\ req' = [req EXCEPT !.pc = "done"]
    /\ resp' = Raised(req.kind)
    /\ ret' = IF req.kind = "call" THEN RetOf("index_embedding", "raise") ELSE ret
    /\ UNCHANGED <<METADATA, INDEX, diskIndex, diskMeta, files, log>>

WriteIndexFail ==
    /\ req.pc = "write_index"
    /\ WriteFails

\* index_embedding writing its new record alone to the metadata artifact
WriteMetaOk_new_record_only ==
    /\ UNCHANGED <<ops, tasks>>
    /\ req.pc = "write_meta"
    /\ diskMeta' = [exists |-> TRUE, recs |-> <<METADATA[Len(METADATA)]>>]
    /\ log' = Append(log, [rec |-> Record(req.uid, req.path, req.hash),
                           vec |-> Embedding(files[req.path.name])])
    /\ req' = [req EXCEPT !.pc = IF req.kind = "identify" THEN "signal" ELSE "done"]
    /\ resp' = IF req.kind = "enroll" THEN EnrollAccepted(TRUE) ELSE resp
    /\ ret' = IF req.kind = "call" THEN RetOf("index_embedding", "returned") ELSE ret
    /\ UNCHANGED <<METADATA, INDEX, diskIndex, files, dirty, faults>>

\* json.dump(METADATA, f), after which index_embedding returns
WriteMetaOk ==
    /\ UNCHANGED <<ops, tasks>>
    /\ req.pc = "write_meta"
    /\ diskMeta' = [exists |-> TRUE, recs |-> METADATA]
    /\ log' = Append(log, [rec |-> Record(req.uid, req.path, req.hash),
                           vec |-> Embedding(files[req.path.name])])
    /\ req' = [req EXCEPT !.pc = IF req.kind = "identify" THEN "signal" ELSE "done"]
    /\ resp' = IF req.kind = "enroll" THEN EnrollAccepted(TRUE) ELSE resp
    /\ ret' = IF req.kind = "call" THEN RetOf("index_embedding", "returned") ELSE ret
    /\ UNCHANGED <<METADATA, INDEX, diskIndex, files, dirty, faults>>

WriteMetaFail ==
    /\ req.pc = "write_meta"
    /\ WriteFails

\* send_signal(signal) returns and identify answers
SignalOk ==
    /\ UNCHANGED <<ops, tasks>>
    /\ req.pc = "signal"
    /\ req' = [req EXCEPT !.pc = "done"]
    /\ resp' = IdentifyAnswer(req.sim, req.label)
    /\ UNCHANGED <<METADATA, INDEX, diskIndex, diskMeta, files, ret, log, dirty,
                   faults>>

\* the except branch of identify taking the request's record and vector
\* out of the in-memory store again
SignalFail_rollback ==
    /\ UNCHANGED <<ops, tasks>>
    /\ req.pc = "signal"
    /\ faults < MaxFaults
    /\ faults' = faults + 1
    /\ req' = [req EXCEPT !.pc = "done"]
    /\ resp' = IdentifyFailed("socket error")
    /\ METADATA' = IF req.indexed THEN METADATA
                   ELSE SubSeq(METADATA, 1, Len(METADATA) - 1)
    /\ INDEX' = IF req.indexed THEN INDEX
                ELSE [INDEX EXCEPT !.vecs = SubSeq(@, 1, Len(@) - 1)]
    /\ UNCHANGED <<diskIndex, diskMeta, files, ret, log, dirty>>

\* send_signal raises (the socket cannot connect, send or receive): the
\* except branch of identify answers
SignalFail ==
    /\ UNCHANGED <<ops, tasks>>
    /\ req.pc = "signal"
    /\ faults < MaxFaults
    /\ faults' = faults + 1
    /\ req' = [req EXCEPT !.pc = "done"]
    /\ resp' = IdentifyFailed("socket error")
    /\ UNCHANGED <<METADATA, INDEX, diskIndex, diskMeta, files, ret, log, dirty>>

\* the response is delivered; the next request may be served
Finish ==
    /\ UNCHANGED <<ops, tasks>>
    /\ req.pc = "done"
    /\ req' = Idle
    /\ resp' = NoResp
    /\ ret' = NoRet
    /\ UNCHANGED <<METADATA, INDEX, diskIndex, diskMeta, files, log, dirty,
                   faults>>

\* the process dies and is started again: the module globals are
\* METADATA = [] and INDEX = None, the artifacts and image files stay
Crash ==
    /\ UNCHANGED <<ops, tasks>>
    /\ faults < MaxFaults
    /\ faults' = faults + 1
    /\ METADATA' = <<>>
    /\ INDEX' = NoIndex
    /\ req' = Idle
    /\ resp' = NoResp
    /\ ret' = NoRet
    /\ dirty' = FALSE
    /\ UNCHANGED <<diskIndex, diskMeta, files, log>>

Init ==
    /\ METADATA = <<>>
    /\ INDEX = NoIndex
    /\ diskIndex = NoFile
    /\ diskMeta = NoMetaFile
    /\ files = <<>>
    /\ req = Idle
    /\ resp = NoResp
    /\ ret = NoRet
    /\ log = <<>>
    /\ dirty = FALSE
    /\ faults = 0
    /\ ops = 0
    /\ tasks = <<>>

Next ==
    \/ Assess
    \/ Identify
    \/ WriteIndexOk
    \/ WriteIndexFail
    \/ WriteMetaOk
    \/ WriteMetaFail
    \/ SignalOk
    \/ SignalFail
    \/ Finish
    \/ Crash

Spec == Init /\ [][Next]_vars

-----------------------------------------------------------------------------
(* The store operations called directly (a test harness, a script), in a   *)
(* process started over the artifacts an earlier process left.             *)

\* the image files of an earlier run, by path name, and who they were
\* ingested for: images 2 and 3 enrolled by alice, 4 by bob, 1 and 5
\* identified as alice's and bob's; the last file shows no face
StoreFiles == <<2, 3, 4, 1, 5, 0>>

StoreUsers == <<"alice", "alice", "bob", "alice", "bob">>

\* the records and vectors of the first n ingestions of that run
RECURSIVE PopulatedRecs(_)
PopulatedRecs(n) ==
    IF n = 0 THEN <<>>
    ELSE Append(PopulatedRecs(n - 1),
                Record(StoreUsers[n], PathStr(n), compute_image_hash(StoreFiles[n])))

RECURSIVE PopulatedVecs(_)
PopulatedVecs(n) ==
    IF n = 0 THEN <<>> ELSE Append(PopulatedVecs(n - 1), Embedding(StoreFiles[n]))

RECURSIVE PopulatedLog(_)
PopulatedLog(n) ==
    IF n = 0 THEN <<>>
    ELSE Append(PopulatedLog(n - 1),
                [rec |-> PopulatedRecs(n)[n], vec |-> PopulatedVecs(n)[n]])

\* the artifacts after those ingestions
PopulatedMeta(n) == [exists |-> n > 0, recs |-> PopulatedRecs(n)]

PopulatedIndex(n) == [exists |-> n > 0, d |-> DIMENSION, vecs |-> PopulatedVecs(n)]

\* an index artifact written for embeddings of another width
ForeignIndex(n) ==
    [exists |-> TRUE, d |-> DIMENSION \div 4, vecs |-> IF n = 0 THEN <<>> ELSE <<0>>]

InitStore ==
    /\ METADATA = <<>>
    /\ INDEX = NoIndex
    /\ files = StoreFiles
    /\ req = Idle
    /\ resp = NoResp
    /\ ret = NoRet
    /\ dirty = FALSE
    /\ faults = 0
    /\ ops = 0
    /\ tasks = <<>>
    /\ \/ \E n \in 0 .. Len(StoreUsers) :
              /\ diskIndex = PopulatedIndex(n)
              /\ diskMeta = PopulatedMeta(n)
              /\ log = PopulatedLog(n)
       \/ \E n \in 0 .. 1 :
              /\ diskIndex = ForeignIndex(n)
              /\ diskMeta = NoMetaFile
              /\ log = <<>>
       \* the earlier run was killed between the two writes of its last ingestion
       \/ \E n \in 1 .. Len(StoreUsers) :
              /\ diskIndex = PopulatedIndex(n)
              /\ diskMeta = PopulatedMeta(n - 1)
              /\ log = PopulatedLog(n - 1)

\* an operation may be called: none is running, and the run's budget allows it
CanCall == req.pc = "idle" /\ ops < MaxOps

\* an operation that returns or raises in one step
Called(r, M, I) ==
    /\ ops' = ops + 1
    /\ tasks' = tasks
    /\ ret' = r
    /\ METADATA' = M
    /\ INDEX' = I
    /\ UNCHANGED <<diskIndex, diskMeta, files, req, resp, log, dirty, faults>>

Outcome(ok) == IF ok THEN "returned" ELSE "raise"

CallLoadIndex ==
    /\ CanCall
    /\ LET li == load_index(INDEX, diskIndex)
       IN  Called(RetOf("load_index", Outcome(li.ok)), METADATA, li.I)

CallIsEmptyIndex ==
    /\ CanCall
    /\ LET e == is_empty_index(INDEX, diskIndex)
       IN  Called([RetOf("is_empty_index", Outcome(e.ok)) EXCEPT !.val = e.ok /\ e.val],
                  METADATA, e.I)

CallCompareFaces ==
    /\ CanCall
    /\ \E p \in DOMAIN files :
           \E c \in compare_faces(files[p], METADATA, INDEX, diskMeta, diskIndex) :
               Called([op |-> "compare_faces",
                       kind |-> IF c.kind = "ok" THEN "returned" ELSE c.kind,
                       val |-> FALSE, img |-> files[p], sim |-> c.sim,
                       label |-> c.label, score |-> c.score, top |-> c.top,
                       k |-> c.k],
                      c.M, c.I)

\* the files index_embedding is called on: two faces and the file without one
CallPaths == {1, 2, Len(StoreFiles)}

\* index_embedding(image_path, user_id, image_hash) up to INDEX.add; the
\* hash is that of the file or that of the first file
CallIndexEmbedding ==
    /\ CanCall
    /\ ops' = ops + 1
    /\ tasks' = tasks
    /\ \E p \in CallPaths, user \in Users :
       \E path \in {PathObj(p), PathStr(p)},
          h \in {compute_image_hash(files[p]), compute_image_hash(files[1])} :
           LET ie == index_embedding_mem(path, user, h, files[p],
                                         METADATA, INDEX, diskMeta, diskIndex)
               r0 == [Idle EXCEPT !.kind = "call", !.img = files[p], !.user = user,
                                  !.hash = h, !.path = path, !.uid = user,
                                  !.preM = EffMeta, !.preV = EffVecs]
           IN  /\ req' = [r0 EXCEPT !.pc =
                              IF ie.kind = "added" THEN "write_index" ELSE "done"]
               /\ ret' = CASE ie.kind = "raise" -> RetOf("index_embedding", "raise")
                           [] ie.kind = "skip"  -> RetOf("index_embedding", "skipped")
                           [] OTHER             -> NoRet
               /\ METADATA' = ie.M
               /\ INDEX' = ie.I
    /\ UNCHANGED <<diskIndex, diskMeta, files, resp, log, dirty, faults>>

NextStore ==
    \/ CallLoadIndex
    \/ CallIsEmptyIndex
    \/ CallCompareFaces
    \/ CallIndexEmbedding
    \/ WriteIndexOk
    \/ WriteIndexFail
    \/ WriteMetaOk
    \/ WriteMetaFail
    \/ Finish

SpecStore == InitStore /\ [][NextStore]_vars

-----------------------------------------------------------------------------
(* Several requests in flight. The two routes are coroutines of one event  *)
(* loop: a request runs until it awaits something that suspends it, and    *)
(* only then may another request run. req is the request that runs, tasks  *)
(* are the suspended ones.                                                 *)

\* the routes suspended at the two writes of index_embedding as well
YieldPoints_at_writes == {"hash", "write_index", "write_meta"}

\* where a route can be suspended: in compute_image_hash, at
\* await image.read() and await image.seek(0). is_indexed is a coroutine
\* with no await of its own, so awaiting it suspends nothing, and nothing
\* after it in either route is awaited.
YieldPoints == {"hash"}

\* a request arrives and runs up to the await of compute_image_hash
Arrive ==
    /\ req.pc = "idle"
    /\ ops < MaxRequests
    /\ ops' = ops + 1
    /\ \E img \in Images :
           \/ \E user \in Users : req' = [Begin("enroll", img, user) EXCEPT !.pc = "hash"]
           \/ req' = [Begin("identify", img, "") EXCEPT !.pc = "hash"]
    /\ UNCHANGED <<METADATA, INDEX, diskIndex, diskMeta, files, resp, ret, log,
                   dirty, faults, tasks>>

\* the running request is suspended at an await
Yield ==
    /\ req.pc \in YieldPoints
    /\ tasks' = Append(tasks, req)
    /\ req' = Idle
    /\ UNCHANGED <<METADATA, INDEX, diskIndex, diskMeta, files, resp, ret, log,
                   dirty, faults, ops>>

\* the event loop, nothing running, resumes a suspended request
Resume ==
    /\ req.pc = "idle"
    /\ \E i \in DOMAIN tasks :
           /\ req' = tasks[i]
           /\ tasks' = SubSeq(tasks, 1, i - 1) \o SubSeq(tasks, i + 1, Len(tasks))
    /\ UNCHANGED <<METADATA, INDEX, diskIndex, diskMeta, files, resp, ret, log,
                   dirty, faults, ops>>

\* the route, from is_indexed to INDEX.add of index_embedding
Run ==
    /\ req.pc = "hash"
    /\ Len(files) < MaxFiles
    /\ \E o \in (IF req.kind = "enroll" THEN AssessOutcomes(req.img, req.user)
                 ELSE IdentifyOutcomes(req.img)) : Apply(o)

NextAsync ==
    \/ Arrive
    \/ Yield
    \/ Resume
    \/ Run
    \/ WriteIndexOk
    \/ WriteIndexFail
    \/ WriteMetaOk
    \/ WriteMetaFail
    \/ SignalOk
    \/ SignalFail
    \/ Finish

SpecAsync == Init /\ [][NextAsync]_vars

-----------------------------------------------------------------------------
(* The routes with the process killed between the two writes of an         *)
(* ingestion, any number of times, and started again.                      *)

\* the process dies after faiss.write_index and before the metadata write;
\* the new process starts with METADATA = [] and INDEX = None
CrashBetweenWrites ==
    /\ UNCHANGED <<ops, tasks>>
    /\ req.pc = "write_meta"
    /\ faults < MaxCrashes
    /\ faults' = faults + 1
    /\ METADATA' = <<>>
    /\ INDEX' = NoIndex
    /\ req' = Idle
    /\ resp' = NoResp
    /\ ret' = NoRet
    /\ dirty' = FALSE
    /\ UNCHANGED <<diskIndex, diskMeta, files, log>>

NextCrash ==
    \/ Assess
    \/ Identify
    \/ WriteIndexOk
    \/ WriteMetaOk
    \/ SignalOk
    \/ Finish
    \/ CrashBetweenWrites

SpecCrash == Init /\ [][NextCrash]_vars

-----------------------------------------------------------------------------
(* Properties *)

\* the best inner product of query q in vecs, and the ordinals that reach it
BestScore(vecs, q) ==
    LET scores == {InnerProduct(q, vecs[i]) : i \in 1 .. Len(vecs)}
    IN  CHOOSE m \in scores : \A s \in scores : s <= m

ArgBest(vecs, q) ==
    LET m == BestScore(vecs, q)
    IN  {o \in 0 .. (Len(vecs) - 1) : InnerProduct(q, vecs[o + 1]) = m}

\* who the record at ordinal o (from 0) names, if there is such a record
LabelAt(o, M) == IF o < Len(M) THEN M[o + 1].user_id ELSE UNKNOWN

HashIn(h, M) == \E i \in 1 .. Len(M) : M[i].hash = h

\* the in-memory store is as the request found it
StoreUnchanged == EffMeta = req.preM /\ EffVecs = req.preV

\* no index_embedding call is between its append and its return
NoIngestionRunning == req.pc \notin {"write_index", "write_meta"}

\* C1: positional alignment. While nothing has failed and the process has
\* not crashed, between ingestions the index holds as many vectors as the
\* metadata holds records, and record i and vector i are the record and
\* the embedding of the i-th index_embedding call that returned normally.
C1_PositionalAlignment ==
    (faults = 0 /\ NoIngestionRunning) =>
        /\ Len(EffVecs) = Len(EffMeta)
        /\ Len(EffMeta) = Len(log)
        /\ \A i \in 1 .. Len(log) :
               EffMeta[i] = log[i].rec /\ EffVecs[i] = log[i].vec

C1_Witness ==
    /\ faults = 0
    /\ req.pc = "idle"
    /\ Len(log) >= 3
    /\ Len(METADATA) = Len(log)
    /\ \E i, j \in 1 .. Len(METADATA) : METADATA[i].user_id # METADATA[j].user_id

\* C2: at most one ingestion per physical image. No two records, in memory
\* or in the metadata artifact, carry the same hash; and a request whose
\* hash the ledger already held leaves the store as it was, the enrollment
\* route answering that the image is a duplicate.
NoTwoWithSameHash(M) ==
    \A i, j \in 1 .. Len(M) : M[i].hash = M[j].hash => i = j

C2_AtMostOncePerImage ==
    /\ NoTwoWithSameHash(METADATA)
    /\ NoTwoWithSameHash(diskMeta.recs)
    /\ (req.kind \in {"enroll", "identify"} /\ HashIn(req.hash, req.preM)) =>
           /\ StoreUnchanged
           /\ NoIngestionRunning
           /\ (req.kind = "enroll" /\ req.pc = "done") =>
                  resp = EnrollRejected(Duplicate)

C2_Witness ==
    /\ req.kind = "enroll"
    /\ req.pc = "done"
    /\ resp = EnrollRejected(Duplicate)
    /\ \E i \in 1 .. Len(METADATA) :
           METADATA[i].hash = req.hash /\ METADATA[i].user_id # req.user

\* C3: idempotent ingestion at the store operation. A call of
\* index_embedding whose hash the ledger already holds adds no record and
\* no vector, and returns as a skip.
C3_IdempotentByHash ==
    (req.kind = "call" /\ HashIn(req.hash, req.preM)) =>
        /\ StoreUnchanged
        /\ req.pc = "done"
        /\ ret.kind = "skipped"

\* C4: the threshold decision of compare_faces on a non-empty store. The
\* neighbour that decides is one with the best inner product of the whole
\* index, whatever K is; below 0.8 the result is (0, "Unknown"); at 0.8 or
\* more it is (floor(100 * score), the user_id of the record at that
\* ordinal); so the similarity is 0 or in 80..100, and 0 comes with "Unknown".
C4_ThresholdDecision ==
    (ret.op = "compare_faces" /\ ret.kind = "returned") =>
        /\ Len(INDEX.vecs) > 0
        /\ ret.top \in ArgBest(INDEX.vecs, Embedding(ret.img))
        /\ ret.score = BestScore(INDEX.vecs, Embedding(ret.img))
        /\ ret.score < THRESHOLD => ret.sim = 0 /\ ret.label = UNKNOWN
        /\ ret.score >= THRESHOLD =>
               /\ ret.sim * 10 <= ret.score
               /\ ret.score < (ret.sim + 1) * 10
               /\ ret.top < Len(METADATA) => ret.label = METADATA[ret.top + 1].user_id
        /\ ret.sim = 0 \/ ret.sim \in 80 .. 100
        /\ ret.sim = 0 => ret.label = UNKNOWN

C4_Witness ==
    /\ ret.op = "compare_faces"
    /\ ret.kind = "returned"
    /\ ret.k = K_BIG
    /\ Len(INDEX.vecs) > K_BIG
    /\ ret.sim >= 80
    /\ ret.label \in Users

\* C5: conflict rejection in enrollment. When the best match of a usable
\* image is at or above the threshold and names someone else than the
\* claimed user, the request is answered with the identity conflict (409)
\* naming the matched label, and the store is as it was.
C5_ConflictRejected ==
    (/\ req.kind = "enroll"
     /\ req.pc = "done"
     /\ req.cmp = "ok"
     /\ req.score >= THRESHOLD
     /\ req.label \in Users
     /\ req.label # req.user) =>
        /\ resp.status = 409
        /\ resp.message = req.label
        /\ StoreUnchanged

\* C6: the outcomes of open identification. Once the identify route has
\* passed INDEX.add or answered: (a) a best match below the threshold is
\* answered "not identified" and the store is as it was; (b) a match at or
\* above it for an image whose hash the ledger held ingests nothing; (c) a
\* match at or above it for a new hash appends exactly one record, with
\* the label of a best-scoring ordinal as user_id and the new hash, and
\* the image's vector; any other outcome leaves the store as it was.
Identified ==
    /\ Len(req.preV) > 0
    /\ ~NoFaceDetected(req.img)
    /\ BestScore(req.preV, Embedding(req.img)) >= THRESHOLD

C6_IdentifyOutcomes ==
    (req.kind = "identify" /\ req.pc # "idle") =>
        /\ (~Identified) =>
               /\ StoreUnchanged
               /\ req.pc = "done"
               /\ resp.status = 400 /\ ~resp.flag
               /\ (Len(req.preV) > 0 /\ ~NoFaceDetected(req.img)) =>
                      resp.message = NotIdentified
        /\ (Identified /\ HashIn(req.hash, req.preM)) => StoreUnchanged
        /\ (Identified /\ ~HashIn(req.hash, req.preM)) =>
               /\ Len(METADATA) = Len(req.preM) + 1
               /\ SubSeq(METADATA, 1, Len(req.preM)) = req.preM
               /\ METADATA[Len(METADATA)].hash = req.hash
               /\ METADATA[Len(METADATA)].user_id \in
                      {LabelAt(o, req.preM) : o \in ArgBest(req.preV, Embedding(req.img))}
               /\ INDEX.vecs = Append(req.preV, Embedding(req.img))

C6_Witness ==
    /\ req.kind = "identify"
    /\ req.pc = "done"
    /\ resp.status = 200
    /\ Identified
    /\ ~HashIn(req.hash, req.preM)
    /\ Len(METADATA) = Len(req.preM) + 1
    /\ \E i \in 1 .. Len(req.preM) : req.preM[i].user_id # req.label

\* C7: the empty store. Over an index artifact of the configured width, or
\* none, compare_faces on zero vectors raises EmptyIndexError, which is
\* neither the generic Exception nor a result; and what is_empty_index
\* returns is whether the index holds zero vectors.
C7_EmptyStore ==
    /\ (/\ ret.op = "compare_faces"
        /\ diskIndex.exists => diskIndex.d = DIMENSION
        /\ Len(EffVecs) = 0) =>
           /\ ret.kind = "EmptyIndexError"
           /\ ret.kind \notin {"Exception", "returned", "FaceDetectionError"}
    /\ (ret.op = "compare_faces" /\ ret.kind = "EmptyIndexError") => Len(EffVecs) = 0
    /\ (ret.op = "is_empty_index" /\ ret.kind = "returned") =>
           (ret.val <=> Len(INDEX.vecs) = 0)

C7_Witness ==
    /\ ret.op = "compare_faces"
    /\ ret.kind = "EmptyIndexError"
    /\ ~diskIndex.exists
    /\ ret.img # 0

\* C8: the persist order of an ingestion. The record and the vector are in
\* memory before the first write; the index artifact is written before the
\* metadata artifact; index_embedding has returned normally only with both
\* artifacts equal to the in-memory store; and the index artifact never
\* holds fewer entries than the metadata artifact.
Ingested ==
    /\ req.pc \in {"signal", "done"}
    /\ Len(METADATA) = Len(req.preM) + 1
    /\ IF req.kind = "enroll" THEN resp = EnrollAccepted(TRUE)
       ELSE IF req.kind = "identify" THEN req.pc = "signal" \/ resp.status = 200
       ELSE ret.kind = "returned"

C8_PersistOrder ==
    /\ Len(diskIndex.vecs) >= Len(diskMeta.recs)
    /\ req.pc \in {"write_index", "write_meta"} =>
           /\ Len(METADATA) = Len(req.preM) + 1
           /\ Len(INDEX.vecs) = Len(req.preV) + 1
    /\ req.pc = "write_index" => diskMeta.recs # METADATA
    /\ req.pc = "write_meta" =>
           /\ diskIndex.vecs = INDEX.vecs
           /\ diskMeta.recs # METADATA
    /\ Ingested => diskIndex.vecs = INDEX.vecs /\ diskMeta.recs = METADATA

C8_Witness ==
    /\ req.pc = "write_meta"
    /\ Len(diskMeta.recs) > 0
    /\ Len(diskIndex.vecs) = Len(diskMeta.recs) + 1

\* C9: a dimension mismatch is fatal. While the index artifact has another
\* width than DIMENSION, no call of load_index, is_empty_index,
\* compare_faces or index_embedding returns normally.
C9_MismatchAlwaysFails ==
    (diskIndex.exists /\ diskIndex.d # DIMENSION) =>
        ~(/\ ret.op \in {"load_index", "is_empty_index", "compare_faces",
                         "index_embedding"}
          /\ ret.kind = "returned")

\* C10: a failed persist is fatal to further writes. After a write of
\* index_embedding has failed, and until the process has loaded the store
\* anew, no index_embedding call returns normally.
C10_NoIngestionAfterFailedPersist == dirty => ~Ingested

\* the requests suspended between the append of index_embedding and the
\* end of its metadata write
SuspendedWriters == {i \in DOMAIN tasks : tasks[i].pc \in {"write_index", "write_meta"}}

\* record i describes the image whose embedding is vector i
RecordDescribesVector(M, V) ==
    /\ Len(M) = Len(V)
    /\ \A i \in 1 .. Len(M) : V[i] = Embedding(files[M[i].image_path.name])

\* C11: single writer. With several requests in flight, no suspended
\* request is between its in-memory append and the end of its metadata
\* write, so at most one ingestion (that of the running request) is; and
\* between ingestions every record describes the vector at its ordinal.
C11_SingleWriter ==
    /\ SuspendedWriters = {}
    /\ NoIngestionRunning => RecordDescribesVector(METADATA, INDEX.vecs)

C11_Witness ==
    /\ req.pc = "write_meta"
    /\ Len(tasks) >= 1
    /\ tasks[1].pc = "hash"
    /\ Len(METADATA) >= 1

\* C12: check-then-ingest is atomic per hash. With several requests in
\* flight no two records carry the same hash, in memory or on disk; a
\* suspended request has not yet made its is_indexed check; and a request
\* whose check found its hash in the ledger appends nothing.
C12_CheckThenIngestAtomic ==
    /\ NoTwoWithSameHash(METADATA)
    /\ NoTwoWithSameHash(diskMeta.recs)
    /\ \A i \in DOMAIN tasks : tasks[i].pc = "hash"
    /\ (req.pc \notin {"idle", "hash"} /\ HashIn(req.hash, req.preM)) =>
           StoreUnchanged /\ NoIngestionRunning

C12_Witness ==
    /\ req.pc = "write_meta"
    /\ ~req.indexed
    /\ HashIn(req.hash, METADATA)
    /\ \E i \in DOMAIN tasks : tasks[i].hash = req.hash /\ tasks[i].pc = "hash"

\* the store a newly started process loads from the two artifacts
ReloadedMeta == load_metadata(<<>>, diskMeta)

ReloadedIndex == load_index(NoIndex, diskIndex).I

\* what compare_faces answers for an image, over a given cache
Answers(img, M, I) ==
    {[kind |-> c.kind, sim |-> c.sim, label |-> c.label] :
        c \in compare_faces(img, M, I, diskMeta, diskIndex)}

\* C13: round-trip persistence. When index_embedding has returned normally,
\* the store a restarted process loads from the artifacts has the same
\* number of vectors, the same vectors, the same record at every ordinal,
\* and compare_faces answers every query as the in-memory store does.
C13_RoundTrip ==
    Ingested =>
        /\ Len(ReloadedIndex.vecs) = Len(INDEX.vecs)
        /\ ReloadedIndex.vecs = INDEX.vecs
        /\ Len(ReloadedMeta) = Len(METADATA)
        /\ \A i \in 1 .. Len(METADATA) : ReloadedMeta[i] = METADATA[i]
        /\ \A img \in Images :
               Answers(img, <<>>, NoIndex) = Answers(img, METADATA, INDEX)

C13_Witness ==
    /\ Ingested
    /\ req.kind = "call"
    /\ Len(INDEX.vecs) > Len(METADATA)
    /\ Len(METADATA) >= 3
    /\ ReloadedMeta = METADATA
    /\ \E img \in Images : \E a \in Answers(img, <<>>, NoIndex) : a.sim >= 80

\* C14: fresh enrollment. An accepted enrollment of a usable image on an
\* empty store (no vector, no record) has run no matching and leaves
\* exactly one record and one vector; and compare_faces with the same
\* image then returns (100, the claimed user_id).
C14_FreshEnrollment ==
    (/\ req.kind = "enroll"
     /\ req.pc = "done"
     /\ resp = EnrollAccepted(TRUE)
     /\ req.preM = <<>>
     /\ req.preV = <<>>) =>
        /\ req.cmp = "none"
        /\ Len(METADATA) = 1
        /\ Len(INDEX.vecs) = 1
        /\ METADATA[1].user_id = req.user
        /\ Answers(req.img, METADATA, INDEX) =
               {[kind |-> "ok", sim |-> PERCENT, label |-> req.user]}

\* the identify request in service has ingested its image
IdentifyIngested ==
    /\ req.kind = "identify"
    /\ req.pc \in {"signal", "done"}
    /\ req.cmp = "ok"
    /\ req.sim >= 80
    /\ ~req.indexed
    /\ Len(METADATA) = Len(req.preM) + 1

\* the record and the vector of the identify request in service are the
\* last of M and of V
HoldsIngestion(M, V) ==
    /\ Len(M) > 0
    /\ M[Len(M)] = Record(req.label, req.path, req.hash)
    /\ Len(V) > 0
    /\ V[Len(V)] = Embedding(req.img)

\* C15: the notification does not roll back. send_signal is reached only
\* by an identify request whose match passed the threshold and whose
\* ingestion, if it made one, is written to both artifacts; and when
\* send_signal has failed, the record and vector that request appended are
\* still in the in-memory store and in both artifacts.
C15_SignalKeepsIngestion ==
    /\ req.pc = "signal" =>
           /\ req.kind = "identify"
           /\ req.cmp = "ok"
           /\ req.sim >= 80
           /\ req.indexed \/ IdentifyIngested
           /\ IdentifyIngested =>
                  diskMeta.recs = METADATA /\ diskIndex.vecs = INDEX.vecs
    /\ (/\ req.kind = "identify"
        /\ req.pc = "done"
        /\ resp = IdentifyFailed("socket error")
        /\ ~req.indexed) =>
           /\ HoldsIngestion(METADATA, INDEX.vecs)
           /\ HoldsIngestion(diskMeta.recs, diskIndex.vecs)

C15_Witness ==
    /\ req.kind = "identify"
    /\ req.pc = "done"
    /\ resp = IdentifyFailed("socket error")
    /\ ~req.indexed
    /\ HoldsIngestion(diskMeta.recs, diskIndex.vecs)
    /\ Len(diskMeta.recs) >= 2

\* C16: bounded lag across crashes. In every state, however many times the
\* process was killed between the index write and the metadata write and
\* started again, the index holds at most one vector more than the
\* metadata holds records, in memory and on disk.
C16_LagAtMostOne ==
    /\ Len(EffVecs) <= Len(EffMeta) + 1
    /\ Len(diskIndex.vecs) <= Len(diskMeta.recs) + 1

\* C17: alignment survives a crash. After the process was killed between
\* the index write and the metadata write and started again, between
\* ingestions every record of the metadata sits at the ordinal of the
\* vector of its own image, so the ordinal of a vector never resolves to
\* the user_id of another ingestion.
C17_AlignedAfterCrash ==
    (faults > 0 /\ NoIngestionRunning) =>
        \A i \in 1 .. Len(EffMeta) :
            /\ i <= Len(EffVecs)
            /\ EffVecs[i] = Embedding(files[EffMeta[i].image_path.name])

\* compare_faces was called on a face, over an index of the configured
\* width whose best-scoring vectors all lie beyond the metadata, with a
\* score at or above the threshold
BestBeyondMetadata ==
    /\ ret.op = "compare_faces"
    /\ INDEX.d = DIMENSION
    /\ Len(INDEX.vecs) > Len(METADATA)
    /\ ~NoFaceDetected(ret.img)
    /\ BestScore(INDEX.vecs, Embedding(ret.img)) >= THRESHOLD
    /\ \A o \in ArgBest(INDEX.vecs, Embedding(ret.img)) : o >= Len(METADATA)

\* C18: an out-of-range ordinal degrades to "Unknown". When the
\* top-ranked ordinal is not below len(METADATA), compare_faces does not
\* raise: it returns the label "Unknown" together with the similarity
\* percentage of the score.
C18_OutOfRangeIsUnknown ==
    BestBeyondMetadata =>
        /\ ret.kind = "returned"
        /\ ret.top >= Len(METADATA)
        /\ ret.label = UNKNOWN
        /\ ret.sim >= 80
        /\ ret.sim * 10 <= ret.score
        /\ ret.score < (ret.sim + 1) * 10

C18_Witness ==
    /\ BestBeyondMetadata
    /\ Len(METADATA) > 0
    /\ ret.kind = "returned"
    /\ ret.label = UNKNOWN
    /\ ret.top = Len(METADATA)

\* the user_ids the records of M carry
UserIds(M) == {M[i].user_id : i \in 1 .. Len(M)}

\* C19: open identification never introduces an identity. Whenever the
\* identify route has appended a record, its user_id is one an earlier
\* record of the ledger carries, and is not the sentinel "Unknown".
C19_IdentifyKeepsIdentities ==
    (/\ req.kind = "identify"
     /\ req.pc # "idle"
     /\ Len(METADATA) = Len(req.preM) + 1) =>
        /\ METADATA[Len(METADATA)].user_id \in UserIds(req.preM)
        /\ METADATA[Len(METADATA)].user_id # UNKNOWN

\* the request in service called index_embedding and it raised
IndexEmbeddingRaised ==
    /\ req.kind \in {"enroll", "identify"}
    /\ req.pc = "done"
    /\ req.path # Idle.path
    /\ resp = Raised(req.kind)

\* C20: a failed ingestion can be retried. When index_embedding has
\* raised, the in-memory store is as it was before the call, and the
\* hash of the request is not in the ledger, so that the same upload is
\* not rejected as a duplicate.
C20_FailedIngestionRetriable ==
    IndexEmbeddingRaised =>
        /\ StoreUnchanged
        /\ ~HashIn(req.hash, EffMeta)
        /\ ~is_indexed(req.hash, METADATA, diskMeta).val

\* the enrollment request in service passed the duplicate check and the
\* quality gate refused its image (returned false, or raised)
QualityRejected ==
    /\ req.kind = "enroll"
    /\ req.pc # "idle"
    /\ ~req.indexed
    /\ is_valid_face(req.img) # "yes"

\* C21: a quality-rejected enrollment leaves the store unchanged. It
\* appends no vector and no record, never reaches the writes of the
\* artifacts, and the hash of the image is not in the ledger afterwards,
\* so that is_indexed of it is false.
C21_QualityRejectedFrame ==
    QualityRejected =>
        /\ req.pc = "done"
        /\ NoIngestionRunning
        /\ StoreUnchanged
        /\ req.path = Idle.path
        /\ ~HashIn(req.hash, EffMeta)
        /\ ~is_indexed(req.hash, METADATA, diskMeta).val
        /\ ~HashIn(req.hash, diskMeta.recs)
        /\ resp \in {EnrollAccepted(FALSE), EnrollRejected("No faces detected in image")}

C21_Witness ==
    /\ QualityRejected
    /\ is_valid_face(req.img) = "no"
    /\ resp = EnrollAccepted(FALSE)
    /\ Len(INDEX.vecs) > 0
    /\ Len(METADATA) > 0

\* the identify request in service has been answered, its match was at or
\* above the threshold, and index_embedding, if called, did not raise
MatchedAndAnswered ==
    /\ req.kind = "identify"
    /\ req.pc = "done"
    /\ req.cmp = "ok"
    /\ req.sim >= 80
    /\ resp # IdentifyFailed(Unexpected)

\* C22: the notification cannot change the outcome of an identification.
\* An identify request whose match is at or above the threshold is
\* answered as identified, with the matched label, whether send_signal
\* returned or raised; in particular a request that ingested a record is
\* not answered identified = false.
C22_SignalKeepsOutcome ==
    MatchedAndAnswered =>
        /\ resp.status = 200
        /\ resp.flag
        /\ resp.message = req.label
        /\ resp = IdentifyAnswer(req.sim, req.label)

====
